---- MODULE Spec2Model ----
(***************************************************************************)
(* Sentinel: policy-driven PII redaction with tokenised storage, policy-   *)
(* gated restoration and an asynchronous LLM audit that purges the token   *)
(* mappings of a redaction call when it reports a leak.                     *)
(*                                                                         *)
(* Conventions of the model                                                *)
(*  - A text is a sequence of words; a token "[REDACTED_<id>]" is one word. *)
(*  - A string that the code splits on ":" (policy context, policy          *)
(*    metadata) is represented by the sequence of its colon-separated       *)
(*    fields, so "a:true" is <<"a", "true">> and f"{x}:{y}" is x \o <<y>>.  *)
(*  - Confidence scores are percentages (0..100).                          *)
(*  - A JSON value is a tagged record; a raw LLM reply is a sequence of     *)
(*    chunks (fence markers, whitespace, JSON text, other text).           *)
(***************************************************************************)
EXTENDS Integers, Sequences, FiniteSets, TLC

\* Number of /redact requests in a behaviour.
NumCalls == 2

\* Number of identifiers uuid4 is asked for in a behaviour.
NumIds == 4

Calls == 1..NumCalls

IdHex == <<"0a1b", "1c2d", "2e3f", "3a4b", "4c5d", "5e6f", "6a7b">>

Ids == {IdHex[i] : i \in 1..NumIds}

None == [t |-> "null"]

\* ---------------------------------------------------------------------
\* Tokens and store keys (service.py, store_in_redis)

Token(token_id) == "[REDACTED_" \o token_id \o "]"

MetaKey(token) == token \o ":policy"

\* A token string no redaction ever minted.
UnknownToken == "[REDACTED_xxxx]"

\* re.findall(r"\[REDACTED_[a-z0-9]+\]", ...) on one word
IsToken(word) == word \in {Token(i) : i \in Ids} \cup {UnknownToken}

RedisTTL == 86400

\* str(bool) as Python formats it inside an f-string
PyStr(b) == IF b THEN "True" ELSE "False"

\* str.lower() on the field values that occur
Lower(s) ==
    CASE s = "True" -> "true"
      [] s = "False" -> "false"
      [] s = "TRUE" -> "true"
      [] s = "FALSE" -> "false"
      [] s = "Patient" -> "patient"
      [] s = "BANK" -> "bank"
      [] OTHER -> s

\* ---------------------------------------------------------------------
\* Policy model and policy engine (app/policies.py)

PolicyFields ==
    {"context", "enabled_entities", "disabled_entities",
     "restoration_allowed", "min_confidence_threshold", "description"}

GENERAL_POLICY ==
    [context |-> <<"general">>,
     enabled_entities |-> {"PERSON", "EMAIL_ADDRESS", "PHONE_NUMBER", "US_SSN", "CREDIT_CARD"},
     disabled_entities |-> {},
     restoration_allowed |-> FALSE,
     min_confidence_threshold |-> 0,
     description |-> "general"]

HEALTHCARE_POLICY ==
    [context |-> <<"healthcare">>,
     enabled_entities |-> {"PERSON", "PHONE_NUMBER", "EMAIL_ADDRESS", "US_SSN",
                           "DATE_TIME", "LOCATION", "IP_ADDRESS"},
     disabled_entities |-> {},
     restoration_allowed |-> FALSE,
     min_confidence_threshold |-> 50,
     description |-> "healthcare"]

FINANCE_POLICY ==
    [context |-> <<"finance">>,
     enabled_entities |-> {"PERSON", "US_SSN", "CREDIT_CARD", "IBAN_CODE", "PHONE_NUMBER",
                           "EMAIL_ADDRESS", "US_BANK_NUMBER", "US_DRIVER_LICENSE"},
     disabled_entities |-> {},
     restoration_allowed |-> FALSE,
     min_confidence_threshold |-> 60,
     description |-> "finance"]

\* PolicyEngine().policies as seeded at construction
PredefinedPolicies == {GENERAL_POLICY, HEALTHCARE_POLICY, FINANCE_POLICY}

RegisteredContexts == {p.context : p \in PredefinedPolicies}

\* load_policy: the registered policy, or ValueError (modelled as None)
load_policy(context) ==
    IF context \in RegisteredContexts
    THEN CHOOSE p \in PredefinedPolicies : p.context = context
    ELSE None

\* A merge that adds the override's entity lists to those of the base
merge_policies_extend(base, overrides) ==
    IF overrides = None THEN base
    ELSE [f \in PolicyFields |->
             IF f \notin DOMAIN overrides THEN base[f]
             ELSE IF f \in {"enabled_entities", "disabled_entities"}
                  THEN base[f] \cup overrides[f]
                  ELSE overrides[f]]

\* merge_policies: fields present in the override replace, the others inherit
merge_policies(base, overrides) ==
    IF overrides = None THEN base
    ELSE [f \in PolicyFields |-> IF f \in DOMAIN overrides THEN overrides[f] ELSE base[f]]

\* An entity check in which the enabled list wins over the disabled list
is_entity_allowed_enabled_wins(policy, entity_type) ==
    \/ entity_type \in policy.enabled_entities
    \/ (policy.enabled_entities = {} /\ entity_type \notin policy.disabled_entities)

\* RedactionPolicy.is_entity_allowed
is_entity_allowed(policy, entity_type) ==
    /\ entity_type \notin policy.disabled_entities
    /\ (policy.enabled_entities = {} \/ entity_type \in policy.enabled_entities)

\* A threshold check that drops a score equal to the threshold
exceeds_confidence_threshold(policy, score) == score > policy.min_confidence_threshold

\* RedactionPolicy.meets_confidence_threshold
meets_confidence_threshold(policy, score) == score >= policy.min_confidence_threshold

filter_entities(results, policy) ==
    SelectSeq(results, LAMBDA r : /\ is_entity_allowed(policy, r.entity_type)
                                  /\ meets_confidence_threshold(policy, r.score))

\* ---------------------------------------------------------------------
\* Entity detector (external): what AnalyzerEngine.analyze reports per word

AnalyzerTable ==
    [w \in {"alice@example.com", "Bob", "555-1234"} |->
        CASE w = "alice@example.com" -> [entity_type |-> "EMAIL_ADDRESS", score |-> 100]
          [] w = "Bob" -> [entity_type |-> "PERSON", score |-> 85]
          [] w = "555-1234" -> [entity_type |-> "PHONE_NUMBER", score |-> 40]]

RECURSIVE analyze_from(_, _)
analyze_from(words, i) ==
    IF i > Len(words) THEN <<>>
    ELSE IF words[i] \in DOMAIN AnalyzerTable
         THEN <<[entity_type |-> AnalyzerTable[words[i]].entity_type,
                 start |-> i,
                 score |-> AnalyzerTable[words[i]].score]>> \o analyze_from(words, i + 1)
         ELSE analyze_from(words, i + 1)

\* self.analyzer.analyze(text=text, language="en")
analyze(words) == analyze_from(words, 1)

RECURSIVE Reverse(_)
Reverse(s) == IF s = <<>> THEN <<>> ELSE Reverse(Tail(s)) \o <<Head(s)>>

\* ---------------------------------------------------------------------
\* Requests and settings

\* The /redact requests of the model. policy is request.policy as
\* model_dump(exclude_none=True) gives it, or None when the request carries no policy.
Requests ==
    {[text |-> <<"hello">>, policy |-> None],
     [text |-> <<"mail", "alice@example.com">>, policy |-> None],
     [text |-> <<"mail", "alice@example.com">>, policy |-> [restoration_allowed |-> TRUE]],
     [text |-> <<"Bob", "at", "555-1234">>, policy |-> [context |-> <<"healthcare">>]],
     [text |-> <<"Bob", "at", "555-1234">>, policy |-> [restoration_allowed |-> TRUE]],
     [text |-> <<"Bob", "at", "555-1234">>, policy |-> [context |-> <<"a", "true">>]],
     [text |-> <<"mail", "alice@example.com">>,
      policy |-> [context |-> <<"a", "b">>, restoration_allowed |-> TRUE]]}

SettingsSet ==
    {[enable_policy_engine |-> TRUE, default_policy_context |-> <<"general">>,
      allow_policy_override |-> TRUE, redis_ttl |-> 86400],
     [enable_policy_engine |-> TRUE, default_policy_context |-> <<"nowhere">>,
      allow_policy_override |-> FALSE, redis_ttl |-> 86400],
     [enable_policy_engine |-> FALSE, default_policy_context |-> <<"general">>,
      allow_policy_override |-> TRUE, redis_ttl |-> 3600],
     [enable_policy_engine |-> TRUE, default_policy_context |-> <<"healthcare">>,
      allow_policy_override |-> TRUE, redis_ttl |-> 86400]}

\* A policy resolution that applies a policy whatever enable_policy_engine is
ResolvePolicyAlwaysOn(s, request_policy) ==
    LET loaded == load_policy(s.default_policy_context)
        global_policy == IF loaded = None THEN GENERAL_POLICY ELSE loaded
    IN IF request_policy # None /\ s.allow_policy_override
       THEN LET base == IF "context" \in DOMAIN request_policy
                           /\ load_policy(request_policy.context) # None
                        THEN load_policy(request_policy.context)
                        ELSE global_policy
            IN merge_policies(base, request_policy)
       ELSE global_policy

\* A policy resolution that merges the request's policy whatever allow_policy_override is
ResolvePolicyUnlocked(s, request_policy) ==
    IF s.enable_policy_engine
    THEN LET loaded == load_policy(s.default_policy_context)
             global_policy == IF loaded = None THEN GENERAL_POLICY ELSE loaded
         IN IF request_policy # None
            THEN LET base == IF "context" \in DOMAIN request_policy
                                /\ load_policy(request_policy.context) # None
                             THEN load_policy(request_policy.context)
                             ELSE global_policy
                 IN merge_policies(base, request_policy)
            ELSE global_policy
    ELSE None

\* redact_data, step 1: the policy applied to a request (None = no policy)
ResolvePolicy(s, request_policy) ==
    IF s.enable_policy_engine
    THEN LET loaded == load_policy(s.default_policy_context)
             global_policy == IF loaded = None THEN GENERAL_POLICY ELSE loaded
         IN IF request_policy # None /\ s.allow_policy_override
            THEN LET base == IF "context" \in DOMAIN request_policy
                                /\ load_policy(request_policy.context) # None
                             THEN load_policy(request_policy.context)
                             ELSE global_policy
                 IN merge_policies(base, request_policy)
            ELSE global_policy
    ELSE None

\* ---------------------------------------------------------------------
\* JSON values, raw LLM replies and the response parsing contract

JBool(b) == [t |-> "bool", b |-> b]

JStr(s) == [t |-> "str", s |-> s]

JObj(o) == [t |-> "obj", o |-> o]

JList(l) == [t |-> "list", l |-> l]

\* Python truthiness of a JSON value
Truthy(v) ==
    CASE v.t = "bool" -> v.b
      [] v.t = "str" -> v.s # ""
      [] v.t = "list" -> v.l # <<>>
      [] v.t = "obj" -> DOMAIN v.o # {}
      [] OTHER -> FALSE

FenceJson == [k |-> "fence_json"]

Fence == [k |-> "fence"]

Ws == [k |-> "ws"]

JsonText(v) == [k |-> "json", v |-> v]

OtherText == [k |-> "text"]

RawText(chunks) == [t |-> "text", chunks |-> chunks]

\* json.dumps of a dict
json_dumps(d) == RawText(<<JsonText(JObj(d))>>)

RECURSIVE lstrip(_)
lstrip(chunks) ==
    IF chunks # <<>> /\ Head(chunks) = Ws THEN lstrip(Tail(chunks)) ELSE chunks

\* str.strip()
strip(chunks) == Reverse(lstrip(Reverse(lstrip(chunks))))

\* re.sub of a leading json fence marker and the whitespace after it
sub_leading_fence(chunks) ==
    IF chunks # <<>> /\ Head(chunks) = FenceJson THEN lstrip(Tail(chunks)) ELSE chunks

\* re.sub of a trailing fence marker and the whitespace before it
sub_trailing_fence(chunks) ==
    IF chunks # <<>> /\ chunks[Len(chunks)] = Fence
    THEN Reverse(lstrip(Tail(Reverse(chunks))))
    ELSE chunks

\* json.loads succeeds exactly on one JSON text
json_loads_ok(chunks) == Len(chunks) = 1 /\ chunks[1].k = "json"

\* The parser without its final except clause: an input that is neither a string nor
\* a dict ends it with the AttributeError of result_raw.strip()
parse_llm_json_response_unguarded(result_raw) ==
    IF result_raw.t = "obj" THEN result_raw.o
    ELSE IF result_raw.t # "text"
    THEN [raised |-> "AttributeError", message |-> "object has no attribute strip"]
    ELSE LET clean_json == strip(sub_trailing_fence(sub_leading_fence(strip(result_raw.chunks))))
         IN IF ~json_loads_ok(clean_json)
            THEN [leaked |-> JBool(FALSE), reason |-> JStr("JSON parse error"),
                  error |-> JStr("JSONDecodeError")]
            ELSE LET result == clean_json[1].v
                 IN IF result.t # "obj" \/ "leaked" \notin DOMAIN result.o
                    THEN [leaked |-> JBool(FALSE), reason |-> JStr("Invalid response structure"),
                          error |-> JStr("malformed_response")]
                    ELSE result.o

\* parse_llm_json_response: the parsed verdict, or a default tagged with an error
parse_llm_json_response(result_raw) ==
    IF result_raw.t = "obj" THEN result_raw.o
    ELSE IF result_raw.t # "text"
    THEN [leaked |-> JBool(FALSE), reason |-> JStr("Unexpected parsing error"),
          error |-> JStr("AttributeError")]
    ELSE LET clean_json == strip(sub_trailing_fence(sub_leading_fence(strip(result_raw.chunks))))
         IN IF ~json_loads_ok(clean_json)
            THEN [leaked |-> JBool(FALSE), reason |-> JStr("JSON parse error"),
                  error |-> JStr("JSONDecodeError")]
            ELSE LET result == clean_json[1].v
                 IN IF result.t # "obj" \/ "leaked" \notin DOMAIN result.o
                    THEN [leaked |-> JBool(FALSE), reason |-> JStr("Invalid response structure"),
                          error |-> JStr("malformed_response")]
                    ELSE result.o

\* dict.get(key)
Get(d, key) == IF key \in DOMAIN d THEN d[key] ELSE None

\* What the LLM endpoint can answer to one POST
RawResponses ==
    {RawText(<<JsonText(JObj([leaked |-> JBool(FALSE), reason |-> JStr("Clean")]))>>),
     RawText(<<JsonText(JObj([leaked |-> JBool(TRUE), reason |-> JStr("Email leaked")]))>>),
     RawText(<<FenceJson, Ws,
               JsonText(JObj([leaked |-> JBool(TRUE), reason |-> JStr("Email leaked")])),
               Ws, Fence>>),
     RawText(<<Fence, Ws,
               JsonText(JObj([leaked |-> JBool(TRUE), reason |-> JStr("Email leaked")])),
               Ws, Fence>>),
     RawText(<<OtherText>>),
     RawText(<<JsonText(JList(<<>>))>>),
     RawText(<<JsonText(JObj([reason |-> JStr("no verdict")]))>>),
     RawText(<<JsonText(JObj([leaked |-> JStr("false"), reason |-> JStr("Clean")]))>>),
     JObj([leaked |-> JBool(TRUE)]),
     None}

LLMReplies ==
    [kind : {"http"}, status : {"200"}, response : RawResponses]
    \cup {[kind |-> "http", status |-> "500", response |-> None],
          [kind |-> "timeout", status |-> "", response |-> None],
          [kind |-> "connect", status |-> "", response |-> None]}

\* A check_for_leaks without the except clauses around the POST
check_for_leaks_unguarded(reply) ==
    IF reply.kind = "http"
    THEN IF reply.status = "200"
         THEN reply.response
         ELSE json_dumps([leaked |-> JBool(FALSE), error |-> JStr("HTTP " \o reply.status)])
    ELSE IF reply.kind = "timeout"
    THEN [raised |-> "TimeoutException", message |-> "timed out"]
    ELSE [raised |-> "ConnectError", message |-> "connection failed"]

\* VerificationAgent.check_for_leaks: one POST, safe default on transport failure
check_for_leaks(reply) ==
    IF reply.kind = "http"
    THEN IF reply.status = "200"
         THEN reply.response
         ELSE json_dumps([leaked |-> JBool(FALSE), error |-> JStr("HTTP " \o reply.status)])
    ELSE IF reply.kind = "timeout"
    THEN json_dumps([leaked |-> JBool(FALSE), error |-> JStr("Timeout waiting for LLM response")])
    ELSE json_dumps([leaked |-> JBool(FALSE), error |-> JStr("connection failed")])

\* ---------------------------------------------------------------------
\* Token store (Redis): key -> [val, ex, at]; at = position in write order

db_set(d, key, value, ex, at) == (key :> [val |-> value, ex |-> ex, at |-> at]) @@ d

\* A DELETE that empties the store
db_delete_flush(d, key) == <<>>

db_delete(d, key) == [k \in DOMAIN d \ {key} |-> d[k]]

\* The number of keys DELETE removed
db_deleted(d, key) == IF key \in DOMAIN d THEN 1 ELSE 0

\* ---------------------------------------------------------------------
\* RedactorService.restore

findall_tokens(words) == SelectSeq(words, IsToken)

\* A replacement that is made only where the token occurs once in the text
replace_single(words, token, value) ==
    IF Cardinality({i \in DOMAIN words : words[i] = token}) > 1
    THEN words
    ELSE [i \in DOMAIN words |-> IF words[i] = token THEN value ELSE words[i]]

\* str.replace(token, value): every occurrence
replace(words, token, value) ==
    [i \in DOMAIN words |-> IF words[i] = token THEN value ELSE words[i]]

\* parts[1].lower() == "true" on the stored metadata
restoration_allowed_of(parts) == Lower(parts[2]) = "true"

\* The policy check of one token blocks the restore
policy_blocks(d, token) ==
    /\ MetaKey(token) \in DOMAIN d
    /\ d[MetaKey(token)].val # <<"">>
    /\ Len(d[MetaKey(token)].val) >= 2
    /\ ~restoration_allowed_of(d[MetaKey(token)].val)

\* A restore that raises KeyError for a token without a stored value
RECURSIVE restore_loop_strict(_, _, _, _)
restore_loop_strict(tokens, d, check_policy, acc) ==
    IF tokens = <<>> THEN acc
    ELSE LET token == Head(tokens)
         IN IF check_policy /\ policy_blocks(d, token)
            THEN [status |-> "PermissionError",
                  message |-> <<"Restoration not allowed for policy context", d[MetaKey(token)].val[1]>>]
            ELSE IF token \in DOMAIN d /\ d[token].val # ""
            THEN restore_loop_strict(Tail(tokens), d, check_policy,
                     [acc EXCEPT !.restored_text = replace(@, token, d[token].val),
                                 !.tokens_found = @ + 1])
            ELSE [status |-> "KeyError", message |-> <<"KeyError", token>>]

\* A restore that counts a token as found only when its replacement changed the text
RECURSIVE restore_loop_changes(_, _, _, _)
restore_loop_changes(tokens, d, check_policy, acc) ==
    IF tokens = <<>> THEN acc
    ELSE LET token == Head(tokens)
         IN IF check_policy /\ policy_blocks(d, token)
            THEN [status |-> "PermissionError",
                  message |-> <<"Restoration not allowed for policy context", d[MetaKey(token)].val[1]>>]
            ELSE IF token \in DOMAIN d /\ d[token].val # ""
            THEN restore_loop_changes(Tail(tokens), d, check_policy,
                     [acc EXCEPT !.restored_text = replace(@, token, d[token].val),
                                 !.tokens_found =
                                     IF replace(acc.restored_text, token, d[token].val)
                                            = acc.restored_text
                                     THEN @ ELSE @ + 1])
            ELSE restore_loop_changes(Tail(tokens), d, check_policy,
                     [acc EXCEPT !.tokens_missing = Append(@, token),
                                 !.warnings = Append(@, "Token " \o token
                                                         \o " expired or not found in Redis")])

\* RedactorService.restore: the loop over the extracted tokens
RECURSIVE restore_loop(_, _, _, _)
restore_loop(tokens, d, check_policy, acc) ==
    IF tokens = <<>> THEN acc
    ELSE LET token == Head(tokens)
         IN IF check_policy /\ policy_blocks(d, token)
            THEN [status |-> "PermissionError",
                  message |-> <<"Restoration not allowed for policy context", d[MetaKey(token)].val[1]>>]
            ELSE IF token \in DOMAIN d /\ d[token].val # ""
            THEN restore_loop(Tail(tokens), d, check_policy,
                     [acc EXCEPT !.restored_text = replace(@, token, d[token].val),
                                 !.tokens_found = @ + 1])
            ELSE restore_loop(Tail(tokens), d, check_policy,
                     [acc EXCEPT !.tokens_missing = Append(@, token),
                                 !.warnings = Append(@, "Token " \o token
                                                         \o " expired or not found in Redis")])

\* A restore that takes the tokens it cannot resolve out of the text
restore_blanking(d, redacted_text, check_policy) ==
    LET r == restore_loop(findall_tokens(redacted_text), d, check_policy,
                 [status |-> "ok", restored_text |-> redacted_text, tokens_found |-> 0,
                  tokens_missing |-> <<>>, warnings |-> <<>>])
    IN IF r.status = "ok"
       THEN [r EXCEPT !.restored_text =
                 [i \in DOMAIN r.restored_text |->
                      IF IsToken(r.restored_text[i]) THEN "" ELSE r.restored_text[i]]]
       ELSE r

restore(d, redacted_text, check_policy) ==
    restore_loop(findall_tokens(redacted_text), d, check_policy,
                 [status |-> "ok", restored_text |-> redacted_text, tokens_found |-> 0,
                  tokens_missing |-> <<>>, warnings |-> <<>>])

\* restore_data, the mapping of the outcome of restore to the HTTP answer: the
\* RestoreResponse, 403 for a PermissionError, 500 for any other exception
restore_response(result) ==
    IF result.status = "PermissionError"
    THEN [status_code |-> 403, detail |-> <<"Restoration forbidden">> \o result.message]
    ELSE IF result.status = "ok"
    THEN [status_code |-> 200,
          original_text |-> result.restored_text,
          tokens_restored |-> result.tokens_found,
          tokens_missing |-> Len(result.tokens_missing),
          warnings |-> result.warnings,
          audit_logged |-> TRUE]
    ELSE [status_code |-> 500, detail |-> <<"Restoration failed">> \o result.message]

\* restore_data (POST /restore): the HTTP outcome of restore(text, check_policy=True),
\* with the request authenticated and the audit trail written
restore_data(d, redacted_text) == restore_response(restore(d, redacted_text, TRUE))

\* ---------------------------------------------------------------------
\* State

VARIABLES
    settings,        \* app.config settings of the process
    pc,              \* per request: position of the /redact handler
    text,            \* per request: request.text
    applied,         \* per request: applied_policy (None = no policy)
    results,         \* per request: analyzer results after filtering
    pending,         \* per request: entities the anonymizer has still to replace
    cur,             \* per request: token whose metadata is written, value not yet
    created_keys,    \* per request: created_keys of redact_and_store
    work_text,       \* per request: the text being anonymized
    response,        \* per request: the HTTP response, None until sent
    db,              \* the token store
    writes,          \* number of SET commands the store has executed
    minted,          \* identifiers uuid4 has returned so far
    audit,           \* per request: its background audit task
    leak_detections, \* AUDITOR_LEAK_DETECTIONS
    redaction_count, \* REDACTION_COUNT
    restore_out,     \* outcome of the restore call that is being answered, else None
    registry,        \* PolicyEngine.policies: context name -> policy
    registered,      \* the register_policy calls made so far, in order
    call             \* the last call of a policy engine, parser or verifier operation

\* The state of the request handlers, the store and the audit tasks
coreVars ==
    <<settings, pc, text, applied, results, pending, cur, created_keys, work_text,
      response, db, writes, minted, audit, leak_detections, redaction_count, restore_out>>

\* The state of the policy engine and the last call of one of its operations
engineVars == <<registry, registered, call>>

vars == <<coreVars, engineVars>>

callVars == <<text, applied, results, pending, cur, created_keys, work_text>>

NoAudit ==
    [pc |-> "none", text |-> <<>>, keys |-> <<>>, todo |-> <<>>, purged_count |-> 0,
     verdict |-> None, raised |-> "none"]

Init ==
    /\ settings \in SettingsSet
    /\ pc = [c \in Calls |-> "idle"]
    /\ text = [c \in Calls |-> <<>>]
    /\ applied = [c \in Calls |-> None]
    /\ results = [c \in Calls |-> <<>>]
    /\ pending = [c \in Calls |-> <<>>]
    /\ cur = [c \in Calls |-> ""]
    /\ created_keys = [c \in Calls |-> <<>>]
    /\ work_text = [c \in Calls |-> <<>>]
    /\ response = [c \in Calls |-> None]
    /\ db = <<>>
    /\ writes = 0
    /\ minted = {}
    /\ audit = [c \in Calls |-> NoAudit]
    /\ leak_detections = 0
    /\ redaction_count = 0
    /\ restore_out = None
    /\ registry = [context \in RegisteredContexts |-> load_policy(context)]
    /\ registered = <<>>
    /\ call = None

\* ---------------------------------------------------------------------
\* /redact: redact_data and RedactorService.redact_and_store

\* An identifier source that hands out an identifier it has handed out before
ReusedIds == IF minted = {} THEN {IdHex[1]} ELSE minted

\* uuid.uuid4().hex[:16] draws 64 random bits. The identifiers are named in the order
\* they are drawn: the k-th draw returns IdHex[k], a value no earlier draw returned
\* (a repeated draw, of probability 2^-64 per pair, is not modelled).
FreshIds ==
    IF Cardinality(minted) < NumIds THEN {IdHex[Cardinality(minted) + 1]} ELSE {}

\* f"{policy.context}:{policy.restoration_allowed}"
meta_value_of(policy) == policy.context \o <<PyStr(policy.restoration_allowed)>>

InFlight(c) == pc[c] \in {"anonymize", "set_token", "returned", "task_added"}

\* One event loop runs the handlers and the audit tasks. redact_data, the restore
\* call of restore_data and the purge loop contain no await, so each runs without
\* another coroutine in between; the audit task awaits once, in check_for_leaks.
HoldsLoop(c) == InFlight(c) \/ audit[c].pc \in {"purge_key", "purge_policy"}

LoopFree == restore_out = None /\ \A c \in Calls : ~HoldsLoop(c)

\* No coroutine other than those of request c holds the loop
LoopFreeFor(c) == restore_out = None /\ \A o \in Calls \ {c} : ~HoldsLoop(o)

\* redact_data up to the call of the anonymizer: policy resolution, detection, filtering.
\* Requests are numbered in order of arrival.
RedactStart(c, r) ==
    /\ pc[c] = "idle"
    /\ LoopFree
    /\ \A earlier \in Calls : earlier < c => pc[earlier] # "idle"
    /\ LET policy == ResolvePolicy(settings, r.policy)
           found == analyze(r.text)
           kept == IF policy # None THEN filter_entities(found, policy) ELSE found
       IN /\ applied' = [applied EXCEPT ![c] = policy]
          /\ results' = [results EXCEPT ![c] = kept]
          \* the anonymizer replaces from the end of the text backwards
          /\ pending' = [pending EXCEPT ![c] = Reverse(kept)]
    /\ text' = [text EXCEPT ![c] = r.text]
    /\ work_text' = [work_text EXCEPT ![c] = r.text]
    /\ pc' = [pc EXCEPT ![c] = "anonymize"]
    /\ UNCHANGED <<settings, cur, created_keys, response, db, writes, minted, audit,
                   leak_detections, redaction_count>>
    /\ UNCHANGED restore_out
    /\ UNCHANGED engineVars

\* store_in_redis, first SET: the policy metadata of a freshly minted token
StoreMeta(c) ==
    /\ pc[c] = "anonymize"
    /\ pending[c] # <<>>
    /\ applied[c] # None
    /\ \E token_id \in FreshIds :
        /\ minted' = minted \cup {token_id}
        /\ cur' = [cur EXCEPT ![c] = Token(token_id)]
        /\ db' = db_set(db, MetaKey(Token(token_id)), meta_value_of(applied[c]),
                        RedisTTL, writes + 1)
    /\ writes' = writes + 1
    /\ pc' = [pc EXCEPT ![c] = "set_token"]
    /\ UNCHANGED <<settings, text, applied, results, pending, created_keys, work_text,
                   response, audit, leak_detections, redaction_count>>
    /\ UNCHANGED restore_out
    /\ UNCHANGED engineVars

\* A store_in_redis that returns the token without the second SET
WriteTokenUnstored(c, token) ==
    LET entity == Head(pending[c])
    IN /\ db' = db
       /\ writes' = writes
       /\ created_keys' = [created_keys EXCEPT ![c] = Append(@, token)]
       /\ work_text' = [work_text EXCEPT ![c][entity.start] = token]
       /\ pending' = [pending EXCEPT ![c] = Tail(@)]
       /\ cur' = [cur EXCEPT ![c] = ""]
       /\ pc' = [pc EXCEPT ![c] = "anonymize"]

\* store_in_redis, second SET, and the anonymizer's replacement of the span
WriteToken(c, token) ==
    LET entity == Head(pending[c])
        pii_text == text[c][entity.start]
    IN /\ db' = db_set(db, token, pii_text, RedisTTL, writes + 1)
       /\ writes' = writes + 1
       /\ created_keys' = [created_keys EXCEPT ![c] = Append(@, token)]
       /\ work_text' = [work_text EXCEPT ![c][entity.start] = token]
       /\ pending' = [pending EXCEPT ![c] = Tail(@)]
       /\ cur' = [cur EXCEPT ![c] = ""]
       /\ pc' = [pc EXCEPT ![c] = "anonymize"]

StoreToken(c) ==
    /\ pc[c] = "set_token"
    /\ WriteToken(c, cur[c])
    /\ UNCHANGED <<settings, text, applied, results, response, minted, audit,
                   leak_detections, redaction_count>>
    /\ UNCHANGED restore_out
    /\ UNCHANGED engineVars

\* store_in_redis without a policy: only the token is written
StoreTokenNoPolicy(c) ==
    /\ pc[c] = "anonymize"
    /\ pending[c] # <<>>
    /\ applied[c] = None
    /\ \E token_id \in FreshIds :
        /\ minted' = minted \cup {token_id}
        /\ WriteToken(c, Token(token_id))
    /\ UNCHANGED <<settings, text, applied, results, response, audit,
                   leak_detections, redaction_count>>
    /\ UNCHANGED restore_out
    /\ UNCHANGED engineVars

\* A SET raises redis.RedisError: it propagates out of redact_data (HTTP 500)
StoreFails(c) ==
    /\ \/ pc[c] = "set_token"
       \/ pc[c] = "anonymize" /\ pending[c] # <<>>
    /\ pc' = [pc EXCEPT ![c] = "failed"]
    /\ response' = [response EXCEPT ![c] = [status |-> 500]]
    /\ UNCHANGED <<settings, callVars, db, writes, minted, audit,
                   leak_detections, redaction_count>>
    /\ UNCHANGED restore_out
    /\ UNCHANGED engineVars

\* redact_and_store returns (anonymized_result.text, scores, created_keys)
RedactReturn(c) ==
    /\ pc[c] = "anonymize"
    /\ pending[c] = <<>>
    /\ pc' = [pc EXCEPT ![c] = "returned"]
    /\ UNCHANGED <<settings, callVars, response, db, writes, minted, audit,
                   leak_detections, redaction_count>>
    /\ UNCHANGED restore_out
    /\ UNCHANGED engineVars

scores_of(res) == [i \in DOMAIN res |-> res[i].score]

policy_response(policy) ==
    IF policy = None THEN None
    ELSE [context |-> policy.context,
          restoration_allowed |-> policy.restoration_allowed,
          entities_filtered |-> Cardinality(policy.enabled_entities),
          description |-> policy.description]

\* A token list shared by all requests instead of the list of request c
task_keys_shared(c) ==
    LET RECURSIVE upto(_)
        upto(n) == IF n = 0 THEN <<>> ELSE upto(n - 1) \o created_keys[n]
    IN upto(NumCalls)

\* The token list handed to the audit task of request c
task_keys(c) == created_keys[c]

\* A handler that schedules the audit only when the call created tokens
AddTaskIfTokens(c) ==
    /\ pc[c] = "returned"
    /\ audit' = IF created_keys[c] = <<>> THEN audit
                ELSE [audit EXCEPT ![c] = [NoAudit EXCEPT !.pc = "queued",
                                                          !.text = work_text[c],
                                                          !.keys = task_keys(c)]]
    /\ pc' = [pc EXCEPT ![c] = "task_added"]
    /\ UNCHANGED <<settings, callVars, response, db, writes, minted,
                   leak_detections, redaction_count>>
    /\ UNCHANGED restore_out
    /\ UNCHANGED engineVars

\* background_tasks.add_task(audit_redaction_task, clean_text, keys)
AddTask(c) ==
    /\ pc[c] = "returned"
    /\ audit' = [audit EXCEPT ![c] = [NoAudit EXCEPT !.pc = "queued",
                                                     !.text = work_text[c],
                                                     !.keys = task_keys(c)]]
    /\ pc' = [pc EXCEPT ![c] = "task_added"]
    /\ UNCHANGED <<settings, callVars, response, db, writes, minted,
                   leak_detections, redaction_count>>
    /\ UNCHANGED restore_out
    /\ UNCHANGED engineVars

\* A task that is started as soon as it is added
TaskStartsWhenAdded(c) == pc[c] \in {"task_added", "responded"}

\* The framework runs a background task once the response of its request is sent
TaskMayStart(c) == pc[c] = "responded"

\* redact_data after add_task: metrics and the response
Respond(c) ==
    /\ pc[c] = "task_added"
    /\ redaction_count' = redaction_count + 1
    /\ response' = [response EXCEPT ![c] =
                       [status |-> 200,
                        redacted_text |-> work_text[c],
                        confidence_scores |-> scores_of(results[c]),
                        audit_status |-> "queued",
                        policy_applied |-> policy_response(applied[c])]]
    /\ pc' = [pc EXCEPT ![c] = "responded"]
    /\ UNCHANGED <<settings, callVars, db, writes, minted, audit, leak_detections>>
    /\ UNCHANGED restore_out
    /\ UNCHANGED engineVars

\* ---------------------------------------------------------------------
\* Background audit: audit_redaction_task

\* result.get("leaked") as the condition of the purge
leak_verdict(result) == Truthy(Get(result, "leaked"))

\* A purge loop that is left after its first token
after_first_key(todo) == "done"

\* Position of the purge loop once the head of todo has been dealt with
after_key(todo) == IF Tail(todo) = <<>> THEN "done" ELSE "purge_key"

\* await verifier.check_for_leaks(...), parse, count a leak, enter the purge loop.
\* The task runs only after the response of its request has been sent.
AuditCheck(c, reply) ==
    /\ audit[c].pc = "queued"
    /\ TaskMayStart(c)
    /\ LoopFreeFor(c)
    /\ LET result == parse_llm_json_response(check_for_leaks(reply))
           leaked == leak_verdict(result)
       IN /\ audit' = [audit EXCEPT ![c].pc = IF leaked /\ audit[c].keys # <<>>
                                               THEN "purge_key" ELSE "done",
                                    ![c].todo = IF leaked THEN audit[c].keys ELSE <<>>,
                                    ![c].verdict = [leaked |-> Get(result, "leaked"),
                                                    error |-> "error" \in DOMAIN result]]
          /\ leak_detections' = IF leaked THEN leak_detections + 1 ELSE leak_detections
    /\ UNCHANGED <<settings, pc, callVars, response, db, writes, minted,
                   redaction_count>>
    /\ UNCHANGED restore_out
    /\ UNCHANGED engineVars

AuditExceptions == {"TimeoutException", "ConnectError", "RedisError", "Exception"}

\* The except clauses without the final except Exception
audit_handler_no_catch_all(exc) ==
    CASE exc = "TimeoutException" -> "logged"
      [] exc = "ConnectError" -> "logged"
      [] exc = "RedisError" -> "logged"
      [] OTHER -> "propagated"

\* The except clauses of audit_redaction_task: what happens to an exception of the body
audit_handler(exc) ==
    CASE exc = "TimeoutException" -> "logged"
      [] exc = "ConnectError" -> "logged"
      [] exc = "RedisError" -> "logged"
      [] OTHER -> "logged"

\* The except clause of the purge loop
purge_handler(exc) ==
    CASE exc = "RedisError" -> "logged"
      [] OTHER -> audit_handler(exc)

\* An exception is raised at the await of check_for_leaks
AuditRaises(c, exc) ==
    /\ audit[c].pc = "queued"
    /\ TaskMayStart(c)
    /\ LoopFreeFor(c)
    /\ audit' = [audit EXCEPT ![c].pc = "done", ![c].raised = audit_handler(exc)]
    /\ UNCHANGED <<settings, pc, callVars, response, db, writes, minted,
                   leak_detections, redaction_count>>
    /\ UNCHANGED restore_out
    /\ UNCHANGED engineVars

\* redactor.db.delete(key) in the purge loop
PurgeDeleteKey(c) ==
    /\ audit[c].pc = "purge_key"
    /\ LET key == Head(audit[c].todo)
       IN /\ db' = db_delete(db, key)
          /\ IF db_deleted(db, key) > 0
             THEN audit' = [audit EXCEPT ![c].purged_count = @ + 1,
                                         ![c].pc = "purge_policy"]
             ELSE audit' = [audit EXCEPT ![c].todo = Tail(@),
                                         ![c].pc = after_key(audit[c].todo)]
    /\ UNCHANGED <<settings, pc, callVars, response, writes, minted,
                   leak_detections, redaction_count>>
    /\ UNCHANGED restore_out
    /\ UNCHANGED engineVars

\* A purge loop that deletes the token and forgets its policy companion
PurgeKeepPolicy(c) ==
    /\ audit[c].pc = "purge_policy"
    /\ db' = db
    /\ audit' = [audit EXCEPT ![c].todo = Tail(@), ![c].pc = after_key(audit[c].todo)]
    /\ UNCHANGED <<settings, pc, callVars, response, writes, minted,
                   leak_detections, redaction_count>>
    /\ UNCHANGED restore_out
    /\ UNCHANGED engineVars

\* redactor.db.delete(f"{key}:policy") after a successful delete of key
PurgeDeletePolicy(c) ==
    /\ audit[c].pc = "purge_policy"
    /\ db' = db_delete(db, MetaKey(Head(audit[c].todo)))
    /\ audit' = [audit EXCEPT ![c].todo = Tail(@), ![c].pc = after_key(audit[c].todo)]
    /\ UNCHANGED <<settings, pc, callVars, response, writes, minted,
                   leak_detections, redaction_count>>
    /\ UNCHANGED restore_out
    /\ UNCHANGED engineVars

\* A DELETE raises redis.RedisError: the inner handler logs it and the loop is left
PurgeFails(c) ==
    /\ audit[c].pc \in {"purge_key", "purge_policy"}
    /\ audit' = [audit EXCEPT ![c].pc = "done", ![c].raised = purge_handler("RedisError")]
    /\ UNCHANGED <<settings, pc, callVars, response, db, writes, minted,
                   leak_detections, redaction_count>>
    /\ UNCHANGED restore_out
    /\ UNCHANGED engineVars

\* ---------------------------------------------------------------------
\* Expiry in the store: every key is written with the same TTL, so keys expire
\* in the order they were written, and not while the writing request still runs.

KeysInFlight ==
    UNION {{created_keys[c][i] : i \in DOMAIN created_keys[c]}
           \cup {MetaKey(created_keys[c][i]) : i \in DOMAIN created_keys[c]}
           \cup {MetaKey(cur[c])} : c \in {x \in Calls : InFlight(x)}}

Expire ==
    /\ \E key \in DOMAIN db :
        /\ \A other \in DOMAIN db : db[key].at + db[key].ex <= db[other].at + db[other].ex
        /\ key \notin KeysInFlight
        /\ restore_out = None
        /\ db' = db_delete(db, key)
    /\ UNCHANGED <<settings, pc, callVars, response, writes, minted, audit,
                   leak_detections, redaction_count>>
    /\ UNCHANGED restore_out
    /\ UNCHANGED engineVars

\* ---------------------------------------------------------------------
\* /restore

Responded == {c \in Calls : pc[c] = "responded"}

RestoreInputs ==
    {response[c].redacted_text : c \in Responded}
    \cup {response[p[1]].redacted_text \o response[p[2]].redacted_text :
            p \in {q \in Responded \X Responded : q[1] # q[2]}}
    \cup {<<"see", UnknownToken>>}

\* A restore that deletes each token it has resolved
RestoreConsuming(redacted_text, check_policy) ==
    /\ LoopFree
    /\ restore_out' = [input |-> redacted_text, check_policy |-> check_policy,
                       result |-> restore(db, redacted_text, check_policy)]
    /\ db' = IF restore(db, redacted_text, check_policy).status = "ok"
             THEN [k \in {key \in DOMAIN db : \A i \in DOMAIN redacted_text : redacted_text[i] # key} |-> db[k]]
             ELSE db
    /\ UNCHANGED <<settings, pc, callVars, response, writes, minted, audit,
                   leak_detections, redaction_count>>
    /\ UNCHANGED engineVars

Restore(redacted_text, check_policy) ==
    /\ LoopFree
    /\ restore_out' = [input |-> redacted_text, check_policy |-> check_policy,
                       result |-> restore(db, redacted_text, check_policy)]
    /\ UNCHANGED <<settings, pc, callVars, response, db, writes, minted, audit,
                   leak_detections, redaction_count>>
    /\ UNCHANGED engineVars

\* The caller of restore has its answer
RestoreReturn ==
    /\ restore_out # None
    /\ restore_out' = None
    /\ UNCHANGED <<settings, pc, callVars, response, db, writes, minted, audit,
                   leak_detections, redaction_count>>
    /\ UNCHANGED engineVars

\* ---------------------------------------------------------------------

Next ==
    \/ \E c \in Calls, r \in Requests : RedactStart(c, r)
    \/ \E c \in Calls : StoreMeta(c)
    \/ \E c \in Calls : StoreToken(c)
    \/ \E c \in Calls : StoreTokenNoPolicy(c)
    \/ \E c \in Calls : StoreFails(c)
    \/ \E c \in Calls : RedactReturn(c)
    \/ \E c \in Calls : AddTask(c)
    \/ \E c \in Calls : Respond(c)
    \/ \E c \in Calls, reply \in LLMReplies : AuditCheck(c, reply)
    \/ \E c \in Calls, exc \in AuditExceptions : AuditRaises(c, exc)
    \/ \E c \in Calls : PurgeDeleteKey(c)
    \/ \E c \in Calls : PurgeDeletePolicy(c)
    \/ \E c \in Calls : PurgeFails(c)
    \/ Expire
    \/ \E t \in RestoreInputs, check_policy \in BOOLEAN : Restore(t, check_policy)
    \/ RestoreReturn

Spec == Init /\ [][Next]_vars

\* ---------------------------------------------------------------------
\* The operations of the policy engine, the response parser and the verifier, called
\* one at a time on inputs from bounded sets (second specification)

\* Longest list of detections handed to filter_entities
MaxDetections == 2

\* Largest number of register_policy calls in a behaviour
MaxRegistrations == 2

\* An exception leaving an operation
Raised(exc, message) == [raised |-> exc, message |-> message]

EntityTypes == {"PERSON", "EMAIL_ADDRESS", "UNSEEN_TYPE"}

\* Policies the operations are called with
EnginePolicies ==
    [context : {<<"custom">>},
     enabled_entities : {{}, {"PERSON"}, {"PERSON", "EMAIL_ADDRESS"}},
     disabled_entities : {{}, {"PERSON"}},
     restoration_allowed : BOOLEAN,
     min_confidence_threshold : {0, 50},
     description : {"custom"}]

\* Policies handed to register_policy: two for one new name, one for a seeded name
RegistrablePolicies ==
    {[GENERAL_POLICY EXCEPT !.context = <<"custom">>, !.description = "first"],
     [HEALTHCARE_POLICY EXCEPT !.context = <<"custom">>, !.description = "second"],
     [FINANCE_POLICY EXCEPT !.context = <<"general">>, !.description = "replaced"]}

\* Names load_policy is asked for
ContextNames == RegisteredContexts \cup {<<"custom">>, <<"nowhere">>}

\* Partial overrides as model_dump(exclude_none=True) gives them: a field that is
\* None in the request is not in the dict
OverrideSet ==
    {[context |-> <<"custom">>],
     [restoration_allowed |-> TRUE],
     [enabled_entities |-> {"EMAIL_ADDRESS"}],
     [enabled_entities |-> {}, disabled_entities |-> {"PERSON"}],
     [min_confidence_threshold |-> 50, description |-> "strict"],
     [context |-> <<"custom">>, enabled_entities |-> {"US_SSN"},
      disabled_entities |-> {"PHONE_NUMBER"}, restoration_allowed |-> TRUE,
      min_confidence_threshold |-> 100, description |-> "all"]}

\* RecognizerResult values of the detector
Detections == [entity_type : EntityTypes, start : {1}, score : {40, 50, 100}]

DetectionLists == UNION {[1..n -> Detections] : n \in 0..MaxDetections}

\* A registration that keeps the policy a name already has
register_policy_first_wins(reg, policy) == reg @@ (policy.context :> policy)

\* PolicyEngine.register_policy: insertion into the registry, keyed by context
register_policy(reg, policy) == (policy.context :> policy) @@ reg

\* PolicyEngine.load_policy on a registry: the policy, or ValueError
registry_load_policy(reg, context) ==
    IF context \in DOMAIN reg
    THEN reg[context]
    ELSE Raised("ValueError", "Unknown policy context")

\* PolicyEngine.get_available_contexts
get_available_contexts(reg) == DOMAIN reg

\* Inputs of parse_llm_json_response: what an LLM answers, and values that are neither
\* a string nor a dict
ParseInputs ==
    RawResponses
    \cup {RawText(<<>>),
          RawText(<<Ws, JsonText(JObj([leaked |-> JBool(FALSE), reason |-> JStr("ok")])), Ws>>),
          RawText(<<FenceJson, Ws,
                    JsonText(JObj([leaked |-> JBool(FALSE), reason |-> JStr("ok")])),
                    Ws, Fence>>),
          RawText(<<Fence, Ws,
                    JsonText(JObj([leaked |-> JBool(FALSE), reason |-> JStr("ok")])),
                    Ws, Fence>>),
          RawText(<<FenceJson, Ws, JsonText(JObj([reason |-> JStr("no verdict")])), Ws, Fence>>),
          RawText(<<FenceJson, Ws, OtherText, Ws, Fence>>),
          RawText(<<OtherText, JsonText(JObj([leaked |-> JBool(TRUE)]))>>),
          RawText(<<JsonText(JStr("leaked"))>>),
          JObj([reason |-> JStr("no verdict")]),
          JList(<<>>),
          JBool(TRUE)}

\* The number of POST requests one call of check_for_leaks sends
posts_sent(reply) == 1

\* ---------------------------------------------------------------------
\* Policy recommendation service (app/policy_recommendation.py)
\* A text is a sequence of words; a confidence is written in hundredths.

\* A JSON number, in hundredths
JNum(n) == [t |-> "num", n |-> n]

healthcare_keywords ==
    {"patient", "doctor", "hospital", "medical", "diagnosis", "treatment", "phi", "hipaa"}

finance_keywords ==
    {"credit card", "payment", "transaction", "account", "bank", "financial", "pci",
     "invoice"}

\* text.lower()
text_lower_of(words) == [i \in DOMAIN words |-> Lower(words[i])]

\* The keywords that occur inside one lower-case word as substrings
KeywordsIn(word) ==
    CASE word \in (healthcare_keywords \cup finance_keywords) -> {word}
      [] word = "philosophy" -> {"phi"}
      [] word = "accounting" -> {"account"}
      [] OTHER -> {}

\* kw in text_lower: a substring test; the one keyword of two words needs both words
\* next to each other
kw_in(kw, text_lower) ==
    IF kw = "credit card"
    THEN \E i \in 1..(Len(text_lower) - 1) :
             text_lower[i] = "credit" /\ text_lower[i + 1] = "card"
    ELSE \E i \in DOMAIN text_lower : kw \in KeywordsIn(text_lower[i])

\* sum(1 for kw in keywords if kw in text_lower): the number of keywords present
keyword_score(keywords, text_lower) ==
    Cardinality({kw \in keywords : kw_in(kw, text_lower)})

Min(a, b) == IF a <= b THEN a ELSE b

\* The reasoning string, as its parts; the error part is added when error is truthy
\* (error is None or a string and only its truthiness is tested: None is written "")
reasoning_of(base, error) ==
    IF error # "" THEN <<base, "(LLM unavailable: ", error, ")">> ELSE <<base>>

\* _get_default_recommendation: the keyword fallback
get_default_recommendation(words, error) ==
    LET text_lower == text_lower_of(words)
        healthcare_score == keyword_score(healthcare_keywords, text_lower)
        finance_score == keyword_score(finance_keywords, text_lower)
        recommended ==
            IF healthcare_score > finance_score /\ healthcare_score >= 2
            THEN [context |-> "healthcare",
                  confidence |-> Min(70, 50 + healthcare_score * 10),
                  reasoning |-> reasoning_of("Keyword-based fallback detected healthcare terms",
                                             error)]
            ELSE IF finance_score > healthcare_score /\ finance_score >= 2
            THEN [context |-> "finance",
                  confidence |-> Min(70, 50 + finance_score * 10),
                  reasoning |-> reasoning_of("Keyword-based fallback detected finance terms",
                                             error)]
            ELSE [context |-> "general",
                  confidence |-> 60,
                  reasoning |-> reasoning_of(
                      "No clear domain detected, using default general policy", error)]
    IN [recommended_context |-> JStr(recommended.context),
        confidence |-> JNum(recommended.confidence),
        reasoning |-> JStr(recommended.reasoning),
        detected_domains |-> JList(<<JStr(recommended.context)>>),
        alternative_contexts |-> JList(<<>>),
        risk_warning |-> None]

required_fields == {"recommended_context", "confidence", "reasoning", "detected_domains"}

valid_contexts == {"general", "healthcare", "finance"}

\* The strings float() converts, with their values in hundredths
NumericStrings == [s \in {"0.9", "1.5"} |-> IF s = "0.9" THEN 90 ELSE 150]

\* float(v) raises ValueError or TypeError
float_raises(v) ==
    CASE v.t = "num" -> FALSE
      [] v.t = "bool" -> FALSE
      [] v.t = "str" -> v.s \notin DOMAIN NumericStrings
      [] OTHER -> TRUE

\* float(v), in hundredths, where it does not raise
float(v) ==
    CASE v.t = "num" -> v.n
      [] v.t = "bool" -> IF v.b THEN 100 ELSE 0
      [] v.t = "str" -> NumericStrings[v.s]

\* _validate_response on a parsed dict, list or string (a list or string of the inputs
\* holds none of the required fields)
validate_response(result) ==
    /\ result.t = "obj"
    /\ required_fields \subseteq DOMAIN result.o
    /\ result.o.recommended_context.t = "str"
    /\ result.o.recommended_context.s \in valid_contexts
    /\ ~float_raises(result.o.confidence)
    /\ 0 <= float(result.o.confidence)
    /\ float(result.o.confidence) <= 100

\* _parse_json_response: the same clean-up as parse_llm_json_response, then json.loads
parse_json_response(chunks) ==
    LET response_text == strip(sub_trailing_fence(sub_leading_fence(strip(chunks))))
    IN IF json_loads_ok(response_text)
       THEN response_text[1].v
       ELSE Raised("JSONDecodeError", "Expecting value")

\* An answer of the LLM with all the required fields
Answer(context, confidence) ==
    [recommended_context |-> JStr(context), confidence |-> confidence,
     reasoning |-> JStr(<<"Domain terms found">>),
     detected_domains |-> JList(<<JStr(context)>>)]

\* What the LLM endpoint can answer to the recommendation prompt
SuggestionResponses ==
    {RawText(<<JsonText(JObj(Answer("finance", JNum(90))))>>),
     RawText(<<JsonText(JObj(Answer("general", JNum(0))))>>),
     RawText(<<JsonText(JObj(Answer("healthcare", JNum(100))))>>),
     RawText(<<FenceJson, Ws, JsonText(JObj(Answer("healthcare", JNum(90)))), Ws, Fence>>),
     RawText(<<Fence, Ws, JsonText(JObj(Answer("healthcare", JNum(90)))), Ws, Fence>>),
     RawText(<<OtherText>>),
     RawText(<<JsonText(JObj([recommended_context |-> JStr("finance"),
                              confidence |-> JNum(90)]))>>),
     RawText(<<JsonText(JObj(Answer("legal", JNum(90))))>>),
     RawText(<<JsonText(JObj(Answer("finance", JNum(150))))>>),
     RawText(<<JsonText(JObj(Answer("finance", JNum(-10))))>>),
     RawText(<<JsonText(JObj(Answer("finance", JStr("high"))))>>),
     RawText(<<JsonText(JObj(Answer("finance", JStr("0.9"))))>>),
     RawText(<<JsonText(JObj(Answer("finance", JStr("1.5"))))>>),
     RawText(<<JsonText(JObj(Answer("finance", JBool(TRUE))))>>),
     RawText(<<JsonText(JObj(Answer("finance", None)))>>),
     RawText(<<JsonText(JList(<<>>))>>),
     RawText(<<JsonText(JNum(42))>>),
     None}

SuggestionReplies ==
    [kind : {"http"}, status : {"200"}, response : SuggestionResponses]
    \cup {[kind |-> "http", status |-> "500", response |-> None],
          [kind |-> "timeout", status |-> "", response |-> None],
          [kind |-> "connect", status |-> "", response |-> None]}

\* The texts a recommendation is asked for
SuggestionTexts ==
    {<<"hello", "world">>,
     <<"patient">>,
     <<"patient", "doctor">>,
     <<"Patient", "doctor", "hospital">>,
     <<"BANK", "payment">>,
     <<"credit", "card", "payment">>,
     <<"philosophy", "patient">>,
     <<"patient", "doctor", "bank", "payment">>,
     <<"patient", "doctor", "bank", "payment", "invoice">>,
     <<"patient", "doctor", "hospital", "bank", "payment">>,
     <<"bank", "bank", "bank", "patient", "patient">>,
     <<"bank", "bank", "bank", "patient", "doctor">>}

\* Why suggest_policy leaves the LLM path: "none" when the answer of the LLM is returned
fallback_cause(reply) ==
    IF reply.kind = "timeout" THEN "timeout"
    ELSE IF reply.kind # "http" THEN "exception"
    ELSE IF reply.status # "200" THEN "status"
    ELSE IF reply.response.t # "text" THEN "exception"
    ELSE LET result == parse_json_response(reply.response.chunks)
         IN IF "raised" \in DOMAIN result THEN "json"
            ELSE IF result.t \in {"num", "bool", "null"} THEN "exception"
            ELSE IF ~validate_response(result) THEN "validation"
            ELSE "none"

\* str(e) of the exception caught by the last handler of suggest_policy
exception_text(reply) ==
    IF reply.kind # "http" THEN "All connection attempts failed"
    ELSE IF reply.response.t # "text" THEN "object has no attribute 'strip'"
    ELSE "argument is not iterable"

\* RecommendationService.suggest_policy: the validated answer of the LLM, or the keyword
\* fallback
suggest_policy(words, reply) ==
    LET cause == fallback_cause(reply)
    IN CASE cause = "none" -> parse_json_response(reply.response.chunks).o
         [] cause = "timeout" -> get_default_recommendation(words, "LLM timeout")
         [] cause = "exception" -> get_default_recommendation(words, exception_text(reply))
         [] OTHER -> get_default_recommendation(words, "")

EngineInit ==
    /\ settings = [enable_policy_engine |-> TRUE, default_policy_context |-> <<"general">>,
                   allow_policy_override |-> TRUE, redis_ttl |-> 86400]
    /\ pc = [c \in Calls |-> "idle"]
    /\ text = [c \in Calls |-> <<>>]
    /\ applied = [c \in Calls |-> None]
    /\ results = [c \in Calls |-> <<>>]
    /\ pending = [c \in Calls |-> <<>>]
    /\ cur = [c \in Calls |-> ""]
    /\ created_keys = [c \in Calls |-> <<>>]
    /\ work_text = [c \in Calls |-> <<>>]
    /\ response = [c \in Calls |-> None]
    /\ db = <<>>
    /\ writes = 0
    /\ minted = {}
    /\ audit = [c \in Calls |-> NoAudit]
    /\ leak_detections = 0
    /\ redaction_count = 0
    /\ restore_out = None
    /\ registry = [context \in RegisteredContexts |-> load_policy(context)]
    /\ registered = <<>>
    /\ call = None

RegisterPolicy(policy) ==
    /\ call = None
    /\ Len(registered) < MaxRegistrations
    /\ registry' = register_policy(registry, policy)
    /\ registered' = Append(registered, policy)
    /\ call' = [op |-> "register_policy", policy |-> policy]
    /\ UNCHANGED coreVars

LoadPolicy(context) ==
    /\ call = None
    /\ call' = [op |-> "load_policy", context |-> context,
                result |-> registry_load_policy(registry, context)]
    /\ UNCHANGED <<coreVars, registry, registered>>

GetAvailableContexts ==
    /\ call = None
    /\ call' = [op |-> "get_available_contexts", result |-> get_available_contexts(registry)]
    /\ UNCHANGED <<coreVars, registry, registered>>

\* merge_policies returns a new policy; the registry and its policies are not written
MergePolicies(base, overrides) ==
    /\ call = None
    /\ call' = [op |-> "merge_policies", base |-> base, overrides |-> overrides,
                result |-> merge_policies(base, overrides)]
    /\ UNCHANGED <<coreVars, registry, registered>>

FilterEntities(detections, policy) ==
    /\ call = None
    /\ call' = [op |-> "filter_entities", detections |-> detections, policy |-> policy,
                result |-> filter_entities(detections, policy)]
    /\ UNCHANGED <<coreVars, registry, registered>>

IsEntityAllowed(policy, entity_type) ==
    /\ call = None
    /\ call' = [op |-> "is_entity_allowed", policy |-> policy, entity_type |-> entity_type,
                result |-> is_entity_allowed(policy, entity_type)]
    /\ UNCHANGED <<coreVars, registry, registered>>

ParseLLMResponse(result_raw) ==
    /\ call = None
    /\ call' = [op |-> "parse_llm_json_response", result_raw |-> result_raw,
                result |-> parse_llm_json_response(result_raw)]
    /\ UNCHANGED <<coreVars, registry, registered>>

CheckForLeaks(reply) ==
    /\ call = None
    /\ call' = [op |-> "check_for_leaks", reply |-> reply, posts |-> posts_sent(reply),
                result |-> check_for_leaks(reply)]
    /\ UNCHANGED <<coreVars, registry, registered>>

\* Stores a restore can find: empty, a token without policy, two tokens under
\* policies (one allowed, one forbidden), two tokens without policy
RestoreStores ==
    {<<>>,
     db_set(<<>>, Token(IdHex[1]), "alice@example.com", RedisTTL, 1),
     db_set(db_set(db_set(db_set(<<>>,
         MetaKey(Token(IdHex[1])), <<"general", "True">>, RedisTTL, 1),
         Token(IdHex[1]), "alice@example.com", RedisTTL, 2),
         MetaKey(Token(IdHex[2])), <<"healthcare", "False">>, RedisTTL, 3),
         Token(IdHex[2]), "Bob", RedisTTL, 4),
     db_set(db_set(<<>>,
         Token(IdHex[1]), "Bob", RedisTTL, 1),
         Token(IdHex[2]), "555-1234", RedisTTL, 2)}

\* Texts sent to restore: tokens repeated, in both orders, unknown, absent
RestoreTexts ==
    {<<"hello">>,
     <<Token(IdHex[1]), "and", Token(IdHex[1])>>,
     <<Token(IdHex[1]), "at", Token(IdHex[2]), "or", Token(IdHex[1])>>,
     <<Token(IdHex[2]), Token(IdHex[1]), Token(IdHex[2])>>,
     <<"see", UnknownToken, Token(IdHex[1]), UnknownToken>>}

RestoreText(d, redacted_text, check_policy) ==
    /\ call = None
    /\ call' = [op |-> "restore", d |-> d, redacted_text |-> redacted_text,
                check_policy |-> check_policy,
                result |-> restore(d, redacted_text, check_policy)]
    /\ UNCHANGED <<coreVars, registry, registered>>

\* Every combination of the three policy settings, with a default context that is
\* registered or not
ResolveSettings ==
    [enable_policy_engine : BOOLEAN,
     default_policy_context : RegisteredContexts \cup {<<"nowhere">>},
     allow_policy_override : BOOLEAN,
     redis_ttl : {RedisTTL}]

\* request.policy of a /redact request, as model_dump(exclude_none=True) gives it
RequestPolicies == OverrideSet \cup {r.policy : r \in Requests} \cup {[context |-> <<"finance">>]}

\* The policy resolution of redact_data, for one request under one configuration
ResolveRequestPolicy(s, request_policy) ==
    /\ call = None
    /\ call' = [op |-> "resolve_policy", settings |-> s, request_policy |-> request_policy,
                result |-> ResolvePolicy(s, request_policy)]
    /\ UNCHANGED <<coreVars, registry, registered>>

SuggestPolicy(words, reply) ==
    /\ call = None
    /\ call' = [op |-> "suggest_policy", text |-> words, reply |-> reply,
                result |-> suggest_policy(words, reply)]
    /\ UNCHANGED <<coreVars, registry, registered>>

\* The caller has the result of the operation
EngineReturn ==
    /\ call # None
    /\ call' = None
    /\ UNCHANGED <<coreVars, registry, registered>>

EngineNext ==
    \/ \E policy \in RegistrablePolicies : RegisterPolicy(policy)
    \/ \E context \in ContextNames : LoadPolicy(context)
    \/ GetAvailableContexts
    \/ \E base \in {registry[n] : n \in DOMAIN registry}, overrides \in OverrideSet \cup {None} :
           MergePolicies(base, overrides)
    \/ \E detections \in DetectionLists, policy \in EnginePolicies :
           FilterEntities(detections, policy)
    \/ \E policy \in EnginePolicies, entity_type \in EntityTypes :
           IsEntityAllowed(policy, entity_type)
    \/ \E result_raw \in ParseInputs : ParseLLMResponse(result_raw)
    \/ \E reply \in LLMReplies : CheckForLeaks(reply)
    \/ \E words \in SuggestionTexts, reply \in SuggestionReplies : SuggestPolicy(words, reply)
    \/ \E d \in RestoreStores, t \in RestoreTexts, check_policy \in BOOLEAN :
           RestoreText(d, t, check_policy)
    \/ \E s \in ResolveSettings, request_policy \in RequestPolicies :
           ResolveRequestPolicy(s, request_policy)
    \/ EngineReturn

EngineSpec == EngineInit /\ [][EngineNext]_vars

\* ---------------------------------------------------------------------
\* Properties

SeqSet(q) == {q[i] : i \in DOMAIN q}

\* The store keys of a list of tokens: each token and its policy companion
KeysOf(keys) == SeqSet(keys) \cup {MetaKey(k) : k \in SeqSet(keys)}

\* Every key that request c has written so far
KeysWrittenBy(c) ==
    KeysOf(created_keys[c]) \cup (IF cur[c] # "" THEN {MetaKey(cur[c])} ELSE {})

\* No key of request c has expired or been purged
AllKeysPresent(c) ==
    \A k \in SeqSet(created_keys[c]) :
        /\ k \in DOMAIN db
        /\ applied[c] # None => MetaKey(k) \in DOMAIN db

\* A step of the audit task of request a
AuditStepOf(a) ==
    \/ \E reply \in LLMReplies : AuditCheck(a, reply)
    \/ \E exc \in AuditExceptions : AuditRaises(a, exc)
    \/ PurgeDeleteKey(a)
    \/ PurgeDeletePolicy(a)
    \/ PurgeFails(a)

\* The audit of request c ended on a leak verdict
LeakVerdict(c) == audit[c].verdict # None /\ Truthy(audit[c].verdict.leaked)

\* C1: audit purge isolation. For two redaction calls a and b with disjoint created
\* token sets, every step of the audit task of a deletes only keys <t> and <t>:policy
\* of tokens t created by a; each key of a token of b is left with its value, and the
\* tokens of b are still restored to their values after the step.
C1_PurgeIsolation ==
    [][\A a \in Calls : \A b \in Calls \ {a} :
          (/\ AuditStepOf(a)
           /\ SeqSet(created_keys[a]) \cap SeqSet(created_keys[b]) = {})
          => /\ (DOMAIN db) \ (DOMAIN db') \subseteq KeysOf(created_keys[a])
             /\ \A k \in KeysOf(created_keys[b]) \cap DOMAIN db :
                    k \in DOMAIN db' /\ db'[k] = db[k]
             /\ \A k \in SeqSet(created_keys[b]) \cap DOMAIN db :
                    restore(db', <<k>>, FALSE).restored_text = <<db[k].val>>]_vars

\* A leak verdict purged the tokens of a while those of the earlier call b stay
C1_Witness ==
    \E a \in Calls : \E b \in Calls \ {a} :
        /\ b < a
        /\ audit[a].pc = "done"
        /\ LeakVerdict(a)
        /\ audit[a].purged_count > 0
        /\ KeysOf(created_keys[a]) \cap DOMAIN db = {}
        /\ created_keys[b] # <<>>
        /\ AllKeysPresent(b)

\* C2: policy gating. After a redaction under a policy with restoration_allowed=False
\* (whatever its context string) has created a token, a policy-checked restore of the
\* returned text raises PermissionError. (That restore leaves the store as it is
\* follows from Restore.)
C2_PolicyGating ==
    \A c \in Calls :
        (/\ restore_out # None
         /\ restore_out.check_policy
         /\ pc[c] = "responded"
         /\ restore_out.input = response[c].redacted_text
         /\ applied[c] # None
         /\ ~applied[c].restoration_allowed
         /\ created_keys[c] # <<>>
         /\ AllKeysPresent(c))
        => restore_out.result.status = "PermissionError"

\* C3: round trip. For a redaction under a policy with restoration_allowed=True
\* (whatever its context string), restoring the returned text gives back the text
\* of the request, provided no key of the call has expired or been purged.
C3_RoundTrip ==
    \A c \in Calls :
        (/\ restore_out # None
         /\ pc[c] = "responded"
         /\ restore_out.input = response[c].redacted_text
         /\ applied[c] # None
         /\ applied[c].restoration_allowed
         /\ AllKeysPresent(c))
        => /\ restore_out.result.status = "ok"
           /\ restore_out.result.restored_text = text[c]

\* The <restoration_allowed> part of a stored "<context>:<restoration_allowed>"
written_flag(meta_value) == meta_value[Len(meta_value)]

\* C4: all-or-nothing policy blocking. A policy-checked restore of a text in which
\* some token has policy metadata whose flag is false raises PermissionError and
\* returns no result.
C4_AllOrNothing ==
    (/\ restore_out # None
     /\ restore_out.check_policy
     /\ \E token \in SeqSet(findall_tokens(restore_out.input)) :
            /\ MetaKey(token) \in DOMAIN db
            /\ Lower(written_flag(db[MetaKey(token)].val)) = "false")
    => restore_out.result.status = "PermissionError"

\* C5: token durability before visibility. When redact_and_store returns, every token
\* in the returned text and every entry of created_keys has its value in the store,
\* and the value of a token in the text is the substring it replaced.
C5_TokenDurability ==
    \A c \in Calls :
        pc[c] = "returned"
        => /\ \A i \in DOMAIN work_text[c] :
                  IsToken(work_text[c][i])
                  => /\ work_text[c][i] \in DOMAIN db
                     /\ db[work_text[c][i]].val = text[c][i]
           /\ \A k \in SeqSet(created_keys[c]) : k \in DOMAIN db
           /\ SeqSet(findall_tokens(work_text[c])) = SeqSet(created_keys[c])

\* redact_and_store has returned a text with two tokens
C5_Witness ==
    \E c \in Calls :
        /\ pc[c] = "returned"
        /\ Len(created_keys[c]) = 2
        /\ Len(findall_tokens(work_text[c])) = 2

\* C6: redaction is atomic with respect to store failure. When a store write of a
\* redaction call fails, no key written by that call is left in the store.
C6_AtomicRedaction ==
    \A c \in Calls : pc[c] = "failed" => KeysWrittenBy(c) \cap DOMAIN db = {}

\* C7: purge completeness. After an audit task with a leak verdict has finished
\* without a store error, neither <token> nor <token>:policy is in the store for
\* any token of the list the task was given.
C7_PurgeComplete ==
    \A c \in Calls :
        (audit[c].pc = "done" /\ LeakVerdict(c) /\ audit[c].raised = "none")
        => KeysOf(audit[c].keys) \cap DOMAIN db = {}

\* A purge under a policy that found one of its two tokens already expired
C7_Witness ==
    \E c \in Calls :
        /\ audit[c].pc = "done"
        /\ LeakVerdict(c)
        /\ audit[c].raised = "none"
        /\ applied[c] # None
        /\ Len(audit[c].keys) = 2
        /\ audit[c].purged_count = 1

\* C8: the audit task deletes store keys only when the leaked field of the parsed
\* verdict is true.
C8_PurgeOnlyOnLeakTrue ==
    \A c \in Calls : audit[c].purged_count > 0 => audit[c].verdict.leaked = JBool(TRUE)

\* C9: audit failure isolation. No exception leaves the audit task, and the task
\* leaves the response of its request as the handler sent it.
C9_AuditFailureIsolation ==
    \A c \in Calls :
        /\ audit[c].raised # "propagated"
        /\ audit[c].pc = "done"
           => /\ pc[c] = "responded"
              /\ response[c].status = 200
              /\ response[c].redacted_text = audit[c].text

\* Audit tasks ended by an exception at the LLM call and by a store error in the purge
C9_Witness ==
    \E a \in Calls : \E b \in Calls \ {a} :
        /\ audit[a].pc = "done"
        /\ audit[a].raised = "logged"
        /\ audit[a].verdict = None
        /\ audit[b].pc = "done"
        /\ audit[b].raised = "logged"
        /\ LeakVerdict(b)

\* C10: the audit is decoupled from the response. An audit task runs only when the
\* response of its request is made, that response says audit_status "queued", and a
\* response never changes afterwards, whatever the audit does.
C10_AuditDecoupled ==
    /\ [](\A c \in Calls :
            audit[c].pc \notin {"none", "queued"}
            => /\ response[c] # None
               /\ response[c].status = 200
               /\ response[c].audit_status = "queued")
    /\ [][\A c \in Calls : response[c] # None => response'[c] = response[c]]_vars

\* An audit has purged tokens and the response still says "queued"
C10_Witness ==
    \E c \in Calls :
        /\ audit[c].pc = "done"
        /\ audit[c].purged_count > 0
        /\ response[c].audit_status = "queued"

\* The tokens of the input of the restore call in restore_out
RestoreTokens == findall_tokens(restore_out.input)

\* The warning restore adds for a missing token
MissingWarning(token) == "Token " \o token \o " expired or not found in Redis"

C12_OnlyFalseFlagBlocks ==
    restore_out # None
    => /\ (~restore_out.check_policy
            \/ \A t \in SeqSet(RestoreTokens) : MetaKey(t) \notin DOMAIN db)
          => restore_out.result.status = "ok"
       /\ restore_out.result.status = "PermissionError"
          => /\ restore_out.check_policy
             /\ \E t \in SeqSet(RestoreTokens) :
                    /\ MetaKey(t) \in DOMAIN db
                    /\ Lower(written_flag(db[MetaKey(t)].val)) = "false"

\* C13: restoration is opt-in end to end. With the policy engine on and overrides
\* allowed, POST /restore of the text a /redact call returned is answered 403 when the
\* request did not set restoration_allowed (every predefined policy has it False) and
\* the call created a token, and 200 with the original text when the request set
\* restoration_allowed=true; no key of the call has expired or been purged.
C13_OptInRestoration ==
    \A c \in Calls :
        (/\ restore_out # None
         /\ restore_out.check_policy
         /\ settings.enable_policy_engine /\ settings.allow_policy_override
         /\ pc[c] = "responded"
         /\ restore_out.input = response[c].redacted_text
         /\ created_keys[c] # <<>>
         /\ AllKeysPresent(c))
        => LET http == restore_data(db, restore_out.input)
           IN IF applied[c].restoration_allowed
              THEN http.status_code = 200 /\ http.original_text = text[c]
              ELSE http.status_code = 403

\* The last call was of operation op and its result has not been taken yet
Called(op) == call # None /\ call.op = op

\* C14: filter_entities(E, P) is a subsequence of E that holds exactly the detections
\* whose type P allows and whose score is at least the threshold of P; a score equal
\* to the threshold is kept, a detection failing either test is dropped.
C14_FilterEntities ==
    Called("filter_entities")
    => LET E == call.detections
           P == call.policy
           R == call.result
           Kept == {i \in DOMAIN E :
                       /\ E[i].entity_type \notin P.disabled_entities
                       /\ (P.enabled_entities = {} \/ E[i].entity_type \in P.enabled_entities)
                       /\ E[i].score >= P.min_confidence_threshold}
       IN /\ Len(R) = Cardinality(Kept)
          /\ \E f \in [DOMAIN R -> DOMAIN E] :
                 /\ \A j, k \in DOMAIN R : j < k => f[j] < f[k]
                 /\ {f[j] : j \in DOMAIN R} = Kept
                 /\ \A j \in DOMAIN R : R[j] = E[f[j]]

\* Of two detections the first was dropped and the second, at the threshold, was kept
C14_Witness ==
    /\ Called("filter_entities")
    /\ Len(call.detections) = 2
    /\ Len(call.result) = 1
    /\ call.result[1] = call.detections[2]
    /\ call.policy.min_confidence_threshold = 50
    /\ call.result[1].score = 50

\* C15: is_entity_allowed(type) is true iff type is not in disabled_entities and
\* enabled_entities is empty or holds type; a type in both lists is not allowed, and
\* with empty enabled_entities every type that is not disabled is allowed.
C15_IsEntityAllowed ==
    Called("is_entity_allowed")
    => LET P == call.policy
           type == call.entity_type
       IN /\ call.result <=> (/\ type \notin P.disabled_entities
                              /\ (P.enabled_entities = {} \/ type \in P.enabled_entities))
          /\ type \in P.enabled_entities \cap P.disabled_entities => ~call.result
          /\ (P.enabled_entities = {} /\ type \notin P.disabled_entities) => call.result

\* A type in both lists was refused
C15_Witness ==
    /\ Called("is_entity_allowed")
    /\ call.entity_type \in call.policy.enabled_entities \cap call.policy.disabled_entities
    /\ ~call.result

\* C16: merge_policies(base, overrides) has the override's value in every field the
\* override holds and the value of base in every other field, equals base when there
\* are no overrides, and leaves the registry and the policies in it as they were.
C16_MergePolicies ==
    /\ [](Called("merge_policies")
          => /\ \A f \in PolicyFields :
                    call.result[f] =
                        IF call.overrides # None /\ f \in DOMAIN call.overrides
                        THEN call.overrides[f]
                        ELSE call.base[f]
             /\ call.overrides = None => call.result = call.base
             /\ call.base \in {registry[n] : n \in DOMAIN registry})
    /\ [][(call'  # None /\ call'.op = "merge_policies") => registry' = registry]_vars

\* The seeded general policy was merged with an override of every field
C16_Witness ==
    /\ Called("merge_policies")
    /\ call.base = GENERAL_POLICY
    /\ registry[<<"general">>] = GENERAL_POLICY
    /\ call.overrides # None
    /\ DOMAIN call.overrides = PolicyFields
    /\ call.result.enabled_entities = {"US_SSN"}

\* The policy registered last under a name, the seeded one when none was registered
LastRegistered(context) ==
    LET at == {i \in DOMAIN registered : registered[i].context = context}
    IN IF at # {}
       THEN registered[CHOOSE i \in at : \A j \in at : j <= i]
       ELSE IF context \in RegisteredContexts
            THEN load_policy(context)
            ELSE Raised("ValueError", "Unknown policy context")

\* C17: policy registry. After any sequence of register_policy calls, load_policy(name)
\* returns the policy registered last under name (the seeded one if none was), fails
\* with ValueError "Unknown policy context" for a name never registered, and
\* get_available_contexts returns exactly the registered names.
C17_PolicyRegistry ==
    /\ \A context \in ContextNames :
           registry_load_policy(registry, context) = LastRegistered(context)
    /\ Called("load_policy") => call.result = LastRegistered(call.context)
    /\ Called("get_available_contexts")
       => call.result = RegisteredContexts
                          \cup {registered[i].context : i \in DOMAIN registered}

\* A name registered twice is loaded with its second policy
C17_Witness ==
    /\ Called("load_policy")
    /\ Len(registered) = 2
    /\ registered[1].context = call.context
    /\ registered[2].context = call.context
    /\ registered[1] # registered[2]
    /\ call.result = registered[2]

\* The text of result_raw, after the cleaning of the parser, is a JSON object that
\* has a leaked field
ParsesToVerdict(result_raw) ==
    /\ result_raw.t = "text"
    /\ LET clean_json ==
               strip(sub_trailing_fence(sub_leading_fence(strip(result_raw.chunks))))
       IN /\ json_loads_ok(clean_json)
          /\ clean_json[1].v.t = "obj"
          /\ "leaked" \in DOMAIN clean_json[1].v.o

\* The JSON object in the text of result_raw
ParsedObject(result_raw) ==
    LET json == SelectSeq(result_raw.chunks, LAMBDA ch : ch.k = "json")
    IN json[1].v.o

C19_FenceStripping ==
    (/\ Called("parse_llm_json_response")
     /\ call.result_raw.t = "text"
     /\ Len(call.result_raw.chunks) = 5
     /\ call.result_raw.chunks[1] \in {FenceJson, Fence}
     /\ call.result_raw.chunks[2] = Ws
     /\ call.result_raw.chunks[3].k = "json"
     /\ call.result_raw.chunks[3].v.t = "obj"
     /\ "leaked" \in DOMAIN call.result_raw.chunks[3].v.o
     /\ call.result_raw.chunks[4] = Ws
     /\ call.result_raw.chunks[5] = Fence)
    => /\ call.result = call.result_raw.chunks[3].v.o
       /\ call.result_raw.chunks[3].v.o.leaked = JBool(TRUE) => leak_verdict(call.result)

FallbackErrors ==
    {"", "LLM timeout", "All connection attempts failed", "object has no attribute 'strip'",
     "argument is not iterable"}

\* The result is the keyword fallback for the text
IsFallbackOf(result, words) ==
    \E error \in FallbackErrors : result = get_default_recommendation(words, error)

\* The reply carries a JSON text: the value it parses to
ParsedAnswer(reply) == parse_json_response(reply.response.chunks)

\* The POST returned 200 with a response string that parses as JSON
AnswerParsed(reply) ==
    /\ reply.kind = "http"
    /\ reply.status = "200"
    /\ reply.response.t = "text"
    /\ "raised" \notin DOMAIN ParsedAnswer(reply)

\* C21: suggest_policy never raises and always recommends general, healthcare or
\* finance; the answer of the LLM is returned only if it has the four required fields,
\* a context of the closed set and a numeric confidence in [0, 1]; on a transport
\* failure, a parse failure or a validation failure the keyword fallback is returned.
C21_SuggestPolicyGuarded ==
    Called("suggest_policy") =>
        /\ "raised" \notin DOMAIN call.result
        /\ call.result.recommended_context \in {JStr(c) : c \in valid_contexts}
        /\ LET AnswerValid(answer) ==
                   /\ answer.t = "obj"
                   /\ required_fields \subseteq DOMAIN answer.o
                   /\ answer.o.recommended_context \in {JStr(c) : c \in valid_contexts}
                   /\ answer.o.confidence.t = "num"
                   /\ answer.o.confidence.n \in 0..100
           IN IF AnswerParsed(call.reply) /\ AnswerValid(ParsedAnswer(call.reply))
              THEN call.result = ParsedAnswer(call.reply).o
              ELSE IsFallbackOf(call.result, call.text)


\* C22: the fallback recommends the domain whose keyword hit count is higher, provided
\* that count is at least 2 and strictly exceeds the other domain's count, and general
\* otherwise; a text with at least 2 occurrences each of healthcare and finance keywords
\* and more finance than healthcare occurrences is recommended finance with a
\* confidence in [0.5, 0.7].
C22_KeywordFallbackRule ==
    (Called("suggest_policy") /\ fallback_cause(call.reply) # "none") =>
        LET text_lower == text_lower_of(call.text)
            Occurrences(keywords) ==
                Cardinality({i \in DOMAIN text_lower :
                                 \/ KeywordsIn(text_lower[i]) \cap keywords # {}
                                 \/ /\ "credit card" \in keywords
                                    /\ i < Len(text_lower)
                                    /\ text_lower[i] = "credit"
                                    /\ text_lower[i + 1] = "card"})
            healthcare_count == Occurrences(healthcare_keywords)
            finance_count == Occurrences(finance_keywords)
            expected ==
                IF healthcare_count > finance_count /\ healthcare_count >= 2 THEN "healthcare"
                ELSE IF finance_count > healthcare_count /\ finance_count >= 2 THEN "finance"
                ELSE "general"
        IN /\ call.result.recommended_context = JStr(expected)
           /\ (healthcare_count >= 2 /\ finance_count > healthcare_count) =>
                  /\ call.result.recommended_context = JStr("finance")
                  /\ call.result.confidence.n \in 50..70


\* C23: every fallback recommendation, for every cause (timeout, other exception,
\* non-200 status, invalid JSON, failed validation) and every outcome, has a confidence
\* of at most 0.7 and a reasoning string that says a fallback occurred (it mentions the
\* fallback or the unavailable LLM).
C23_FallbackDistinguishable ==
    (Called("suggest_policy") /\ fallback_cause(call.reply) # "none") =>
        /\ call.result.confidence.t = "num"
        /\ call.result.confidence.n <= 70
        /\ \E i \in DOMAIN call.result.reasoning.s :
               call.result.reasoning.s[i] \in
                   {"Keyword-based fallback detected healthcare terms",
                    "Keyword-based fallback detected finance terms",
                    "(LLM unavailable: "}


\* ---------------------------------------------------------------------
\* Policy resolution of /redact

\* C24: when a /redact request, or the configured default, names a context that is not
\* registered, the request is served and the general policy is the base policy whose
\* rules are applied, whatever the configured default context is.
C24_UnknownContextRecoverable ==
    \A c \in Calls :
        (pc[c] # "idle" /\ settings.enable_policy_engine) =>
            /\ applied[c] # None
            /\ applied[c].context \notin RegisteredContexts =>
                   \E r \in Requests :
                       /\ r.policy # None
                       /\ "context" \in DOMAIN r.policy
                       /\ applied[c] = merge_policies(GENERAL_POLICY, r.policy)
            /\ (load_policy(settings.default_policy_context) = None
                    /\ ~settings.allow_policy_override) =>
                   applied[c] = GENERAL_POLICY


\* ---------------------------------------------------------------------
\* Token freshness, lifecycle and expiry

C26_TokenLifecycle ==
    [][\A k \in {key \in DOMAIN db : IsToken(key)} :
          /\ k \in DOMAIN db' => db'[k].val = db[k].val
          /\ k \notin DOMAIN db' =>
                 \/ Expire
                 \/ \E c \in Calls : k \in SeqSet(created_keys[c]) /\ PurgeDeleteKey(c)]_vars

\* A later call has written and answered, a restore has read the store, the tokens of
\* an earlier call still hold the words of its text, and one call's purge has run
C26_Witness ==
    \E a \in Calls : \E b \in Calls \ {a} :
        /\ audit[a].pc = "done"
        /\ audit[a].purged_count > 0
        /\ SeqSet(created_keys[a]) \cap DOMAIN db = {}
        /\ pc[b] = "responded"
        /\ created_keys[b] # <<>>
        /\ \A k \in SeqSet(created_keys[b]) : k \in DOMAIN db /\ db[k].val \in SeqSet(text[b])
        /\ restore_out # None
        /\ restore_out.input = response[b].redacted_text


\* C27: expiry. Every key written by a redaction (<token> and, under a policy,
\* <token>:policy) is written with a positive expiry equal to the configured TTL
\* (redis_ttl), the same for both keys of a token, so that both expire together.
C27_Expiry ==
    \A k \in DOMAIN db :
        /\ db[k].ex > 0
        /\ db[k].ex = settings.redis_ttl
        /\ (IsToken(k) /\ MetaKey(k) \in DOMAIN db) => db[MetaKey(k)].ex = db[k].ex


\* ---------------------------------------------------------------------
\* /restore

\* C28: /restore outcome mapping. A restore blocked by policy is answered 403 with a
\* message that names the context of the policy under which the blocked token was
\* redacted; a restore whose tokens are missing or expired is answered 200 with the
\* warnings; any other failure (the store unreachable) is answered 500.
C28_RestoreOutcomeMapping ==
    /\ restore_response([status |-> "ConnectionError",
                         message |-> <<"Error connecting to redis">>]).status_code = 500
    /\ (restore_out # None /\ restore_out.check_policy) =>
           LET http == restore_data(db, restore_out.input)
               tokens == findall_tokens(restore_out.input)
           IN /\ restore_out.result.status = "PermissionError" =>
                     /\ http.status_code = 403
                     /\ \E i \in DOMAIN tokens : \E c \in Calls :
                            /\ policy_blocks(db, tokens[i])
                            /\ \A j \in 1..(i - 1) : ~policy_blocks(db, tokens[j])
                            /\ tokens[i] \in SeqSet(created_keys[c])
                            /\ http.detail =
                                   <<"Restoration forbidden",
                                     "Restoration not allowed for policy context">>
                                   \o applied[c].context
              /\ restore_out.result.status = "ok" =>
                     /\ http.status_code = 200
                     /\ http.warnings = restore_out.result.warnings
                     /\ http.tokens_missing = Len(http.warnings)
                     /\ \A i \in DOMAIN tokens :
                            tokens[i] \notin DOMAIN db =>
                                \E w \in DOMAIN http.warnings :
                                    http.warnings[w] = "Token " \o tokens[i]
                                                       \o " expired or not found in Redis"


C30_BestEffortPurge ==
    \A c \in Calls :
        (audit[c].pc = "done" /\ LeakVerdict(c)) => Len(audit[c].todo) <= 1


\* ---------------------------------------------------------------------
\* Audit scheduling and the leak counter

\* C31: audit scheduling. Exactly one audit task is scheduled for each redaction call
\* that succeeds, also when it created no tokens, and none for a call that fails; the
\* task is given the redacted text of that call and exactly the list of tokens that
\* call created, and nothing schedules it again or changes what it was given.
C31_AuditScheduling ==
    /\ [](\A c \in Calls :
            /\ pc[c] \in {"task_added", "responded"} =>
                   /\ audit[c].pc # "none"
                   /\ audit[c].text = work_text[c]
                   /\ audit[c].keys = created_keys[c]
            /\ pc[c] = "responded" => audit[c].text = response[c].redacted_text
            /\ pc[c] \notin {"task_added", "responded"} => audit[c].pc = "none"
            /\ SeqSet(audit[c].keys) \subseteq
                   {Token(token_id) : token_id \in minted}
                   \ UNION {SeqSet(created_keys[o]) : o \in Calls \ {c}})
    /\ [][\A c \in Calls :
            /\ audit'[c].pc = "queued" /\ audit[c].pc # "queued" =>
                   audit[c].pc = "none" /\ pc[c] = "returned" /\ pc'[c] = "task_added"
            /\ audit[c].pc # "none" =>
                   audit'[c].keys = audit[c].keys /\ audit'[c].text = audit[c].text]_vars

\* The audit of a call that created no tokens has run, another call has failed without
\* an audit, and the store holds keys no task was given
C31_Witness ==
    \E a \in Calls : \E b \in Calls \ {a} :
        /\ pc[a] = "responded"
        /\ created_keys[a] = <<>>
        /\ audit[a].pc = "done"
        /\ audit[a].keys = <<>>
        /\ pc[b] = "failed"
        /\ audit[b].pc = "none"
        /\ DOMAIN db # {}


\* ---------------------------------------------------------------------
\* restore as a function of the store and the text

\* C32: duplicate tokens. When a token occurs several times in the input of restore and
\* has a stored value, every occurrence is replaced by that value in restored_text; and
\* restored_text is the same in whatever order the extracted tokens are processed.
C32_DuplicateTokens ==
    (Called("restore") /\ call.result.status = "ok") =>
        LET tokens == findall_tokens(call.redacted_text)
            n == Len(tokens)
            Orders == {p \in [1..n -> 1..n] : \A i, j \in 1..n : p[i] = p[j] => i = j}
            start == [status |-> "ok", restored_text |-> call.redacted_text,
                      tokens_found |-> 0, tokens_missing |-> <<>>, warnings |-> <<>>]
        IN /\ \A i \in DOMAIN call.redacted_text :
                  LET word == call.redacted_text[i]
                  IN (IsToken(word) /\ word \in DOMAIN call.d /\ call.d[word].val # "") =>
                         call.result.restored_text[i] = call.d[word].val
           /\ \A p \in Orders :
                  restore_loop([i \in 1..n |-> tokens[p[i]]], call.d, FALSE,
                               start).restored_text
                      = call.result.restored_text

\* A restore replaced both occurrences of one token and the token between them
C32_Witness ==
    /\ Called("restore")
    /\ call.result.status = "ok"
    /\ call.redacted_text = <<Token(IdHex[1]), "at", Token(IdHex[2]), "or", Token(IdHex[1])>>
    /\ call.result.restored_text = <<"Bob", "at", "555-1234", "or", "Bob">>
    /\ call.result.tokens_found = 3


\* C33: leak counter. The leak-detection counter is incremented exactly once by each
\* audit task whose parsed verdict is a leak (leaked is true), whether or not the purge
\* that follows succeeds, and never by an audit whose verdict is no leak or an
\* error-tagged default: it counts the audits that have a leak verdict.
C33_LeakCounter ==
    leak_detections =
        Cardinality({c \in Calls : /\ audit[c].verdict # None
                                   /\ audit[c].verdict.leaked = JBool(TRUE)
                                   /\ ~audit[c].verdict.error})


\* ---------------------------------------------------------------------
\* Policy keys, applied policies and purge

\* C34: policy companion invariant. For every token created under a policy, in every
\* reachable state in which <token> is in the store, <token>:policy is in the store too
\* (across creation order, purge order and expiry of the two keys).
C34_PolicyCompanion ==
    \A c \in Calls :
        applied[c] # None =>
            \A k \in SeqSet(created_keys[c]) :
                k \in DOMAIN db => MetaKey(k) \in DOMAIN db


\* C35: restore result accounting. For every restore call that returns, tokens_found
\* plus the length of tokens_missing is the number of token occurrences extracted from
\* the input (duplicates counted), warnings has one entry per entry of tokens_missing,
\* and tokens_found is the number of occurrences that were resolved; /restore reports
\* these counts.
C35_RestoreAccounting ==
    (Called("restore") /\ call.result.status = "ok") =>
        LET tokens == findall_tokens(call.redacted_text)
            Stored(token) == token \in DOMAIN call.d /\ call.d[token].val # ""
            r == call.result
        IN /\ r.tokens_found + Len(r.tokens_missing) = Len(tokens)
           /\ r.tokens_found = Cardinality({i \in DOMAIN tokens : Stored(tokens[i])})
           /\ r.tokens_missing = SelectSeq(tokens, LAMBDA token : ~Stored(token))
           /\ Len(r.warnings) = Len(r.tokens_missing)
           /\ \A i \in DOMAIN r.tokens_missing :
                  r.warnings[i] = MissingWarning(r.tokens_missing[i])
           /\ restore_response(r).tokens_restored = r.tokens_found
           /\ restore_response(r).tokens_missing = Len(r.tokens_missing)

\* A restore resolved a token that occurs twice and another one, and a restore found a
\* token missing at two places
C35_Witness ==
    /\ Called("restore")
    /\ call.result.status = "ok"
    /\ \/ /\ call.result.tokens_found = 3
          /\ Cardinality(SeqSet(findall_tokens(call.redacted_text))) = 2
          /\ call.result.tokens_missing = <<>>
       \/ /\ call.result.tokens_found = 1
          /\ call.result.tokens_missing = <<UnknownToken, UnknownToken>>
          /\ Len(call.result.warnings) = 2


\* C36: restore is read-only. A restore call, whatever its outcome (success, missing
\* tokens, PermissionError) and whatever check_policy is, leaves every key of the store
\* with its value and its expiry: it writes nothing and deletes nothing.
C36_RestoreReadOnly ==
    [][(restore_out = None /\ restore_out' # None) =>
           /\ db' = db
           /\ writes' = writes
           /\ minted' = minted]_vars

\* A policy-checked restore has resolved tokens and they are still stored; the store
\* also holds a key of a blocked or unrelated token
C36_Witness ==
    /\ restore_out # None
    /\ restore_out.check_policy
    /\ restore_out.result.status = "ok"
    /\ restore_out.result.tokens_found > 0
    /\ \A k \in SeqSet(findall_tokens(restore_out.input)) :
           k \in DOMAIN db /\ db[k].ex = RedisTTL
    /\ \E k \in DOMAIN db : k \notin KeysOf(findall_tokens(restore_out.input))


\* C37: override lock. When the policy engine is enabled and allow_policy_override is
\* false, the policy applied by /redact is the configured default policy (the general
\* policy when the default context is not registered) for every request, whatever
\* policy fields the request carries; the stored restoration flag is the default's, so
\* no request makes its tokens restorable when the default forbids restoration.
C37_OverrideLock ==
    (/\ Called("resolve_policy")
     /\ call.settings.enable_policy_engine
     /\ ~call.settings.allow_policy_override)
    => LET loaded == load_policy(call.settings.default_policy_context)
           default == IF loaded = None THEN GENERAL_POLICY ELSE loaded
       IN /\ call.result = default
          /\ ~default.restoration_allowed =>
                 /\ ~call.result.restoration_allowed
                 /\ meta_value_of(call.result) = default.context \o <<"False">>

\* A request asking for another context, other entities and restoration under a
\* locked configuration whose default is the healthcare policy
C37_Witness ==
    /\ Called("resolve_policy")
    /\ call.settings.enable_policy_engine
    /\ ~call.settings.allow_policy_override
    /\ call.settings.default_policy_context = <<"healthcare">>
    /\ call.request_policy # None
    /\ DOMAIN call.request_policy = PolicyFields
    /\ call.request_policy.restoration_allowed
    /\ call.result = HEALTHCARE_POLICY


C39_PurgeFinal ==
    \A c \in Calls :
        (/\ pc[c] = "responded"
         /\ audit[c].pc = "done"
         /\ LeakVerdict(c)
         /\ audit[c].raised = "none"
         /\ restore_out # None)
        => /\ restore_out.input = response[c].redacted_text =>
                  /\ restore_out.result.status = "ok"
                  /\ restore_out.result.restored_text = response[c].redacted_text
                  /\ restore_out.result.tokens_found = 0
           /\ restore_out.result.status = "ok" =>
                  \A i \in DOMAIN restore_out.input :
                      restore_out.input[i] \in SeqSet(created_keys[c]) =>
                          /\ restore_out.result.restored_text[i] = restore_out.input[i]
                          /\ restore_out.input[i] \in SeqSet(restore_out.result.tokens_missing)

\* A call under a policy created two tokens, its audit found a leak and purged them
\* all, and a policy-checked restore of its redacted text has been answered
C39_Witness ==
    \E c \in Calls :
        /\ pc[c] = "responded"
        /\ audit[c].pc = "done"
        /\ LeakVerdict(c)
        /\ audit[c].raised = "none"
        /\ audit[c].purged_count >= 2
        /\ applied[c] # None
        /\ restore_out # None
        /\ restore_out.check_policy
        /\ restore_out.input = response[c].redacted_text
        /\ Len(restore_out.result.tokens_missing) = Len(created_keys[c])

====
